---- MODULE Spec2Model ----
(***************************************************************************)
(* A model of the wurstliga-data pipeline:                                 *)
(*   scraper/scrape_kicktipp.py   get, parse_matches, parse_players,       *)
(*                                apply_wurstliga_scoring,                 *)
(*                                derive_spieltag_status                   *)
(*   scraper/compute_wurstliga.py load_spieltage, main (season standings)  *)
(*   scraper/config.py            RETRY, WURSTLIGA_LADDER,                 *)
(*                                MATCHES_PER_SPIELTAG                     *)
(* Text is a sequence of one-character strings, so that strip(), the       *)
(* NUM_RE pattern and int() are computed character by character.           *)
(* Each component has a specification of its own (SpecGet, SpecMatches,    *)
(* SpecPlayers, SpecScoring, SpecStatus, SpecStandings); the variables of  *)
(* the other components stay at their initial values.                      *)
(***************************************************************************)
EXTENDS Integers, Sequences, FiniteSets, TLC

VARIABLES
    \* get(url)
    getPc,          \* "loop" | "after_loop" | "returned" | "raised"
    getI,           \* the loop variable i of get
    responses,      \* status codes of the responses received so far (r is the last)
    \* parse_matches(soup)
    pmPc,           \* "call" | "returned"
    matchTable,     \* the match table of the page: [found, rows]
    matches,        \* first component of the returned pair
    total_slots,    \* second component of the returned pair
    \* parse_players(soup)
    ppPc,           \* "call" | "returned"
    playerTable,    \* the player table of the page: [found, rows]
    players,        \* the returned list
    \* apply_wurstliga_scoring(players)
    scPc,           \* "raw" | "scored"
    scInput,        \* the list as it was handed in
    scPlayers,      \* the list after the call (mutated in place)
    \* derive_spieltag_status(matches, total_slots, players)
    stPc,           \* "call" | "returned"
    stMatches, stSlots, stPlayers,
    status,
    \* compute_wurstliga.main()
    aggPc,          \* "start" | "written" | "raised"
    dirExists,      \* whether SPIEL_DIR exists
    docs,           \* the documents load_spieltage yields, in file order
    standings       \* the object written to standings.json

getVars == <<getPc, getI, responses>>
pmVars  == <<pmPc, matchTable, matches, total_slots>>
ppVars  == <<ppPc, playerTable, players>>
scVars  == <<scPc, scInput, scPlayers>>
stVars  == <<stPc, stMatches, stSlots, stPlayers, status>>
aggVars == <<aggPc, dirExists, docs, standings>>
vars    == <<getVars, pmVars, ppVars, scVars, stVars, aggVars>>

--------------------------------------------------------------------------
(* Components at rest. *)

GetIdle == getPc = "idle" /\ getI = 0 /\ responses = <<>>
PmIdle  == pmPc = "idle" /\ matchTable = <<>> /\ matches = <<>> /\ total_slots = 0
PpIdle  == ppPc = "idle" /\ playerTable = <<>> /\ players = <<>>
ScIdle  == scPc = "idle" /\ scInput = <<>> /\ scPlayers = <<>>
StIdle  == stPc = "idle" /\ stMatches = <<>> /\ stSlots = 0 /\ stPlayers = <<>> /\ status = ""
AggIdle == aggPc = "idle" /\ dirExists = FALSE /\ docs = <<>> /\ standings = <<>>

--------------------------------------------------------------------------
(* Text helpers. *)

Digits == {"0", "1", "2", "3", "4", "5", "6", "7", "8", "9"}
Spaces == {" "}

IsDigit(c) == c \in Digits
IsSpace(c) == c \in Spaces

\* All texts of at most n characters over an alphabet.
Texts(alphabet, n) == UNION {[1..k -> alphabet] : k \in 0..n}

\* All lists of at most n elements of a set.
Lists(S, n) == UNION {[1..k -> S] : k \in 0..n}

\* The tables a page can hold: none with the headers looked for, or the first
\* such table, with at most n rows of the given kinds.
Tables(rowKinds, n) ==
    {[found |-> FALSE, rows |-> <<>>]}
        \cup {[found |-> TRUE, rows |-> r] : r \in Lists(rowKinds, n)}

\* str.strip()
RECURSIVE LStrip(_)
LStrip(s) == IF s # <<>> /\ IsSpace(Head(s)) THEN LStrip(Tail(s)) ELSE s

RECURSIVE RStrip(_)
RStrip(s) ==
    IF s # <<>> /\ IsSpace(s[Len(s)]) THEN RStrip(SubSeq(s, 1, Len(s) - 1)) ELSE s

Strip(s) == RStrip(LStrip(s))

AllDigits(s) == \A k \in 1..Len(s) : IsDigit(s[k])

--------------------------------------------------------------------------
(* get(url): scrape_kicktipp.py 57-69, RETRY from config.py 21. *)

RETRY == 2

\* Status codes a server can answer with.
StatusCodes == {200, 204, 304, 404, 500}

\* Response.raise_for_status(): raises for 4xx and 5xx only.
RaiseForStatusRaises(code) == 400 <= code /\ code < 600

GetInit == getPc = "loop" /\ getI = 0 /\ responses = <<>>

\* One iteration of `for i in range(RETRY + 1)`: the request, the test of the
\* status code, and (when it is not 200) the sleep before the next one.
GetRequest ==
    /\ getPc = "loop"
    /\ \E code \in StatusCodes :
        /\ responses' = Append(responses, code)
        /\ IF code = 200
             THEN getPc' = "returned" /\ getI' = getI
             ELSE /\ getI' = getI + 1
                  /\ getPc' = IF getI + 1 < RETRY + 1 THEN "loop" ELSE "after_loop"
    /\ UNCHANGED <<pmVars, ppVars, scVars, stVars, aggVars>>

\* requests.get raises: the exception leaves get at once.
GetRequestFails ==
    /\ getPc = "loop"
    /\ getPc' = "raised"
    /\ UNCHANGED <<getI, responses>>
    /\ UNCHANGED <<pmVars, ppVars, scVars, stVars, aggVars>>

\* Lines 68-69: r.raise_for_status(), then return r.
GetAfterLoop ==
    /\ getPc = "after_loop"
    /\ getPc' = IF RaiseForStatusRaises(responses[Len(responses)])
                  THEN "raised" ELSE "returned"
    /\ UNCHANGED <<getI, responses>>
    /\ UNCHANGED <<pmVars, ppVars, scVars, stVars, aggVars>>

NextGet == GetRequest \/ GetRequestFails \/ GetAfterLoop

InitGet == GetInit /\ PmIdle /\ PpIdle /\ ScIdle /\ StIdle /\ AggIdle

SpecGet == InitGet /\ [][NextGet]_vars

\* C10: get issues at most RETRY+1 requests, returns as soon as a response has
\* status 200 (no request follows a 200), raises when none of the RETRY+1
\* responses has status 200, and never returns a response whose status is not
\* 200.
C10_GetReturnsOnly200 ==
    /\ Len(responses) <= RETRY + 1
    /\ \A k \in 1..Len(responses) : responses[k] = 200 => k = Len(responses)
    /\ (getPc = "returned" => responses # <<>> /\ responses[Len(responses)] = 200)
    /\ (getPc \in {"returned", "raised"} /\ Len(responses) = RETRY + 1
          /\ (\A k \in 1..Len(responses) : responses[k] # 200)
        => getPc = "raised")

--------------------------------------------------------------------------
(* parse_matches(soup): scrape_kicktipp.py 103-158.                        *)
(* A row of the match table is [ncells, ergebnis]: the number of its <td>  *)
(* and the text of the fourth one. Termin, Heim and Gast are copied (or    *)
(* parsed as a date) without touching the result and are left out.         *)
(* A cell text is td.get_text(" ", strip=True) (line 127): the pieces of   *)
(* text of the cell, each stripped, joined by one blank, so it neither     *)
(* starts nor ends with a blank.                                           *)

MaxRows == 1
MaxCellLen == 4

ResultAlphabet == {"1", ":", " ", "x"}
ResultCells == {c \in Texts(ResultAlphabet, MaxCellLen) : Strip(c) = c}

MatchRows ==
    {[ncells |-> 3, ergebnis |-> <<>>]}
        \cup {[ncells |-> 4, ergebnis |-> c] : c \in ResultCells}

\* \s*(\d+)\s* : one part of NUM_RE, on either side of the colon.
PaddedNumber(t) == LET u == Strip(t) IN u # <<>> /\ AllDigits(u)

\* The pattern of line 73 with the end anchor lost.
NUM_RE_match_Unanchored(s) ==
    \E c \in 1..Len(s) : \E e \in c + 1..Len(s) :
        /\ s[c] = ":"
        /\ PaddedNumber(SubSeq(s, 1, c - 1))
        /\ PaddedNumber(SubSeq(s, c + 1, e))

\* NUM_RE.match(s) with NUM_RE = ^\s*(\d+)\s*:\s*(\d+)\s*$  (line 73).
NUM_RE_match(s) ==
    \E c \in 1..Len(s) :
        /\ s[c] = ":"
        /\ PaddedNumber(SubSeq(s, 1, c - 1))
        /\ PaddedNumber(SubSeq(s, c + 1, Len(s)))

\* Lines 145-146: res = ergebnis.strip(); res = res if NUM_RE.match(res) else "".
NormalizeResult(ergebnis) ==
    LET res == Strip(ergebnis) IN IF NUM_RE_match(res) THEN res ELSE <<>>

\* The loop of lines 126-156 over rows[i..], i counted from 1.
RECURSIVE MatchRecords(_, _)
MatchRecords(rows, i) ==
    IF i > Len(rows) THEN <<>>
    ELSE IF rows[i].ncells < 4 THEN MatchRecords(rows, i + 1)
    ELSE <<[kicktipp_row |-> i, result |-> NormalizeResult(rows[i].ergebnis)]>>
            \o MatchRecords(rows, i + 1)

\* The returned pair (matches, total_match_slots_detected).
parse_matches(table) ==
    IF ~table.found THEN <<<<>>, 0>>
    ELSE <<MatchRecords(table.rows, 1), Len(table.rows)>>

PmInit ==
    /\ pmPc = "call"
    /\ matchTable \in Tables(MatchRows, MaxRows)
    /\ matches = <<>>
    /\ total_slots = 0

ParseMatches ==
    /\ pmPc = "call"
    /\ pmPc' = "returned"
    /\ matches' = parse_matches(matchTable)[1]
    /\ total_slots' = parse_matches(matchTable)[2]
    /\ UNCHANGED matchTable
    /\ UNCHANGED <<getVars, ppVars, scVars, stVars, aggVars>>

NextMatches == ParseMatches

InitMatches == GetIdle /\ PmInit /\ PpIdle /\ ScIdle /\ StIdle /\ AggIdle

SpecMatches == InitMatches /\ [][NextMatches]_vars

\* digits:digits and nothing else.
ExactScore(s) ==
    \E c \in 2..Len(s) - 1 :
        /\ s[c] = ":"
        /\ \A k \in 1..Len(s) : k # c => s[k] \in Digits

\* digits, blanks, a colon, blanks, digits: no blank at either end or inside
\* a number.
SpacedScore(s) ==
    \E a \in 1..Len(s) : \E c \in a + 1..Len(s) : \E b \in c + 1..Len(s) :
        /\ s[c] = ":"
        /\ \A k \in 1..a : s[k] \in Digits
        /\ \A k \in a + 1..c - 1 : s[k] \in Spaces
        /\ \A k \in c + 1..b - 1 : s[k] \in Spaces
        /\ \A k \in b..Len(s) : s[k] \in Digits

\* The cell of the row a match record was made from.
CellOf(m) == matchTable.rows[m.kicktipp_row].ergebnis

\* C8 as stated: every match record's result is empty or exactly
\* digits:digits, and any other cell content is stored as the empty string.
C8_ResultEmptyOrExactScore ==
    pmPc = "returned" =>
        \A k \in 1..Len(matches) :
            /\ matches[k].result = <<>> \/ ExactScore(matches[k].result)
            /\ ~ExactScore(CellOf(matches[k])) => matches[k].result = <<>>

\* C8 amended: every match record's result is empty or digits, optional
\* blanks, a colon, optional blanks, digits; a cell of that form is stored as
\* it is, and any other cell content is stored as the empty string.
C8_ResultEmptyOrSpacedScore ==
    pmPc = "returned" =>
        \A k \in 1..Len(matches) :
            /\ matches[k].result = <<>> \/ SpacedScore(matches[k].result)
            /\ SpacedScore(CellOf(matches[k])) => matches[k].result = CellOf(matches[k])
            /\ ~SpacedScore(CellOf(matches[k])) => matches[k].result = <<>>

\* A page whose result cell holds blanks around the colon has been parsed and
\* the result kept.
C8_Witness ==
    /\ pmPc = "returned"
    /\ \E k \in 1..Len(matches) :
        /\ matches[k].result # <<>>
        /\ \E j \in 1..Len(matches[k].result) : matches[k].result[j] = " "

--------------------------------------------------------------------------
(* parse_players(soup): scrape_kicktipp.py 160-211.                        *)
(* A row of the player table is [enough, name, p_raw]: whether it has more *)
(* than max(name_idx, p_idx) cells (line 197), and the texts of the name   *)
(* cell and of the points cell.                                            *)

MaxPlayerRows == 2
MaxPointsLen == 3

PointsAlphabet == {"0", "1", "-", "+", " ", "x"}
PointsCells == {c \in Texts(PointsAlphabet, MaxPointsLen) : Strip(c) = c}
NameCells == {"", "A", "B"}

PlayerRows ==
    {[enough |-> FALSE, name |-> "", p_raw |-> <<>>]}
        \cup {[enough |-> TRUE, name |-> n, p_raw |-> c] :
                n \in NameCells, c \in PointsCells}

DigitChars == <<"0", "1", "2", "3", "4", "5", "6", "7", "8", "9">>
DigitValue(c) == (CHOOSE n \in 1..10 : DigitChars[n] = c) - 1

\* The value of a text of digits and underscores, the underscores skipped.
RECURSIVE DecimalValue(_, _)
DecimalValue(s, acc) ==
    IF s = <<>> THEN acc
    ELSE IF Head(s) = "_" THEN DecimalValue(Tail(s), acc)
    ELSE DecimalValue(Tail(s), 10 * acc + DigitValue(Head(s)))

\* The digit part of an integer literal: digits, single underscores between
\* digits only.
DigitGroup(s) ==
    /\ s # <<>>
    /\ IsDigit(s[1]) /\ IsDigit(s[Len(s)])
    /\ \A k \in 1..Len(s) : IsDigit(s[k]) \/ s[k] = "_"
    /\ \A k \in 1..Len(s) - 1 : ~(s[k] = "_" /\ s[k + 1] = "_")

\* Python's int(text): blanks at the ends dropped, an optional sign, a digit
\* group. [ok |-> FALSE] stands for ValueError.
PyInt(text) ==
    LET t      == Strip(text)
        signed == t # <<>> /\ t[1] \in {"+", "-"}
        body   == IF signed THEN Tail(t) ELSE t
    IN IF ~DigitGroup(body) THEN [ok |-> FALSE, val |-> 0]
       ELSE [ok |-> TRUE,
             val |-> IF signed /\ t[1] = "-" THEN 0 - DecimalValue(body, 0)
                     ELSE DecimalValue(body, 0)]

\* Lines 201-206: p_raw = tds[p_idx].strip(); try int(p_raw) except: 0.
PointsValue(cell) ==
    LET p_raw == Strip(cell) IN IF PyInt(p_raw).ok THEN PyInt(p_raw).val ELSE 0

\* The loop of lines 195-209.
RECURSIVE PlayerRecords(_)
PlayerRecords(rows) ==
    IF rows = <<>> THEN <<>>
    ELSE LET tr == Head(rows) IN
         IF ~tr.enough \/ tr.name = "" THEN PlayerRecords(Tail(rows))
         ELSE <<[name |-> tr.name, kicktipp_P |-> PointsValue(tr.p_raw)]>>
                \o PlayerRecords(Tail(rows))

parse_players(table) == IF ~table.found THEN <<>> ELSE PlayerRecords(table.rows)

PpInit ==
    /\ ppPc = "call"
    /\ playerTable \in Tables(PlayerRows, MaxPlayerRows)
    /\ players = <<>>

ParsePlayers ==
    /\ ppPc = "call"
    /\ ppPc' = "returned"
    /\ players' = parse_players(playerTable)
    /\ UNCHANGED playerTable
    /\ UNCHANGED <<getVars, pmVars, scVars, stVars, aggVars>>

NextPlayers == ParsePlayers

InitPlayers == GetIdle /\ PmIdle /\ PpInit /\ ScIdle /\ StIdle /\ AggIdle

SpecPlayers == InitPlayers /\ [][NextPlayers]_vars

\* C9: every player record of parse_players has a raw score that is a
\* non-negative integer.
C9_RawScoreNonNegative ==
    ppPc = "returned" => \A k \in 1..Len(players) : players[k].kicktipp_P >= 0

--------------------------------------------------------------------------
(* apply_wurstliga_scoring(players): scrape_kicktipp.py 213-243,           *)
(* WURSTLIGA_LADDER from config.py 13.                                     *)

WURSTLIGA_LADDER == <<10, 8, 6, 5, 4, 3, 2, 1>>

\* bucket.keys(): the distinct kicktipp_P of the list (lines 223-225).
BucketKeys(ps) == {ps[i].kicktipp_P : i \in 1..Len(ps)}

\* sorted(keys) without reverse=True.
RECURSIVE SortedAscending(_)
SortedAscending(keys) ==
    IF keys = {} THEN <<>>
    ELSE LET lo == CHOOSE x \in keys : \A y \in keys : x <= y
         IN <<lo>> \o SortedAscending(keys \ {lo})

\* unique_scores = sorted(bucket.keys(), reverse=True) (line 227).
RECURSIVE SortedReverse(_)
SortedReverse(keys) ==
    IF keys = {} THEN <<>>
    ELSE LET hi == CHOOSE x \in keys : \A y \in keys : x >= y
         IN <<hi>> \o SortedReverse(keys \ {hi})

\* score_to_dense_rank = {score: i + 1 for i, score in enumerate(unique_scores)}
\* (line 228), looked up with default 999 (line 231).
ScoreToDenseRank(unique_scores, score) ==
    IF \E i \in 1..Len(unique_scores) : unique_scores[i] = score
    THEN CHOOSE i \in 1..Len(unique_scores) : unique_scores[i] = score
    ELSE 999

\* The ladder read at the rank itself instead of at rank - 1.
LadderPointsOffByOne(dense_rank) ==
    LET ladder_idx == dense_rank
    IN IF 0 <= ladder_idx /\ ladder_idx < Len(WURSTLIGA_LADDER)
       THEN WURSTLIGA_LADDER[ladder_idx + 1] ELSE 0

\* Lines 234-239; WURSTLIGA_LADDER[ladder_idx] counts from 0.
LadderPoints(dense_rank) ==
    LET ladder_idx == dense_rank - 1
    IN IF 0 <= ladder_idx /\ ladder_idx < Len(WURSTLIGA_LADDER)
       THEN WURSTLIGA_LADDER[ladder_idx + 1] ELSE 0

\* Lines 230-243 for one player.
ScoredPlayer(p, unique_scores) ==
    LET dense_rank == ScoreToDenseRank(unique_scores, p.kicktipp_P)
        wurst      == LadderPoints(dense_rank)
    IN [name          |-> p.name,
        kicktipp_P    |-> p.kicktipp_P,
        dense_rank    |-> dense_rank,
        wurstliga_pts |-> wurst,
        sts           |-> IF dense_rank = 1 THEN 1 ELSE 0,
        tv            |-> IF p.kicktipp_P = 0 THEN 1 ELSE 0,
        null_wurst    |-> IF wurst = 0 THEN 1 ELSE 0]

\* The list after the call.
apply_wurstliga_scoring(ps) ==
    LET unique_scores == SortedReverse(BucketKeys(ps))
    IN [i \in 1..Len(ps) |-> ScoredPlayer(ps[i], unique_scores)]

\* The lists handed in: up to MaxListed players with any score of
\* -1..MaxScore (parse_players can yield a negative score), followed by a
\* field of up to MaxField further players with the scores f, f-1, ..., 1.
MaxListed == 3
MaxScore == 2
MaxField == 9

PlayerName(i) == "P" \o ToString(i)

ScoreLists(listed, field) ==
    UNION {{l \o [j \in 1..f |-> f + 1 - j] : l \in Lists(-1..MaxScore, listed)} :
           f \in 0..field}

RawPlayers(scores) ==
    [i \in 1..Len(scores) |-> [name |-> PlayerName(i), kicktipp_P |-> scores[i]]]

ScInit ==
    /\ scPc = "raw"
    /\ scInput \in {RawPlayers(l) : l \in ScoreLists(MaxListed, MaxField)}
    /\ scPlayers = scInput

ApplyScoring ==
    /\ scPc = "raw"
    /\ scPc' = "scored"
    /\ scPlayers' = apply_wurstliga_scoring(scPlayers)
    /\ UNCHANGED scInput
    /\ UNCHANGED <<getVars, pmVars, ppVars, stVars, aggVars>>

NextScoring == ApplyScoring

InitScoring == GetIdle /\ PmIdle /\ PpIdle /\ ScInit /\ StIdle /\ AggIdle

SpecScoring == InitScoring /\ [][NextScoring]_vars

\* The list with the players at places a and b exchanged.
Exchanged(ps, a, b) ==
    [i \in 1..Len(ps) |-> IF i = a THEN ps[b] ELSE IF i = b THEN ps[a] ELSE ps[i]]

\* The list in reverse order.
Reversed(ps) == [i \in 1..Len(ps) |-> ps[Len(ps) + 1 - i]]

\* The ranks a list's scoring gives, place by place.
RanksOf(ps) == LET scored == apply_wurstliga_scoring(ps)
               IN [i \in 1..Len(ps) |-> scored[i].dense_rank]

\* C1: dense_rank = 1 + the number of distinct raw scores of the list that are
\* strictly greater than the player's: equal scores get equal rank, the ranks
\* are 1..k with no gap, a higher score gets a strictly smaller rank, and a
\* player's rank is the same however the list is ordered (every exchange of
\* two places, which generate all orders, and the reverse order).
C1_DenseRank ==
    scPc = "scored" =>
        LET n == Len(scInput) IN
        /\ Len(scPlayers) = n
        /\ \A i \in 1..n :
            /\ scPlayers[i].name = scInput[i].name
            /\ scPlayers[i].kicktipp_P = scInput[i].kicktipp_P
            /\ scPlayers[i].dense_rank =
                 1 + Cardinality({scInput[j].kicktipp_P : j \in 1..n}
                                   \cap {x \in -1..MaxScore + MaxField :
                                            x > scInput[i].kicktipp_P})
        /\ \A i, j \in 1..n :
            /\ scInput[i].kicktipp_P = scInput[j].kicktipp_P
                 => scPlayers[i].dense_rank = scPlayers[j].dense_rank
            /\ scInput[i].kicktipp_P > scInput[j].kicktipp_P
                 => scPlayers[i].dense_rank < scPlayers[j].dense_rank
        /\ {scPlayers[i].dense_rank : i \in 1..n}
             = 1..Cardinality({scInput[i].kicktipp_P : i \in 1..n})
        /\ \A a \in 1..n : \A b \in a + 1..n :
             LET ranks == RanksOf(Exchanged(scInput, a, b)) IN
             /\ ranks[a] = scPlayers[b].dense_rank
             /\ ranks[b] = scPlayers[a].dense_rank
             /\ \A i \in 1..n \ {a, b} : ranks[i] = scPlayers[i].dense_rank
        /\ LET ranks == RanksOf(Reversed(scInput)) IN
             \A i \in 1..n : ranks[n + 1 - i] = scPlayers[i].dense_rank

\* A list with a tie, three distinct scores and the tied players apart has
\* been scored.
C1_Witness ==
    /\ scPc = "scored"
    /\ \E i, j, k \in 1..Len(scPlayers) :
        /\ i < k /\ k < j
        /\ scPlayers[i].kicktipp_P = scPlayers[j].kicktipp_P
        /\ scPlayers[i].dense_rank = 2
        /\ scPlayers[j].dense_rank = 2
        /\ scPlayers[k].dense_rank = 3
    /\ \E i \in 1..Len(scPlayers) : scPlayers[i].dense_rank = 1

\* C2: wurstliga_pts = ladder[dense_rank - 1] (counted from 0) when
\* dense_rank <= the ladder's length, and 0 when dense_rank is greater.
C2_LadderLookup ==
    scPc = "scored" =>
        \A i \in 1..Len(scPlayers) :
            LET r == scPlayers[i].dense_rank IN
            /\ r <= Len(WURSTLIGA_LADDER)
                 => scPlayers[i].wurstliga_pts = WURSTLIGA_LADDER[(r - 1) + 1]
            /\ r > Len(WURSTLIGA_LADDER) => scPlayers[i].wurstliga_pts = 0

\* A list with more distinct scores than the ladder has places has been
\* scored: the last place of the ladder and a rank beyond it both occur.
C2_Witness ==
    /\ scPc = "scored"
    /\ \E i, j \in 1..Len(scPlayers) :
        /\ scPlayers[i].dense_rank = Len(WURSTLIGA_LADDER)
        /\ scPlayers[i].wurstliga_pts = 1
        /\ scPlayers[j].dense_rank > Len(WURSTLIGA_LADDER)
        /\ scPlayers[j].wurstliga_pts = 0

--------------------------------------------------------------------------
(* derive_spieltag_status(matches, total_slots, players):                  *)
(* scrape_kicktipp.py 245-263, MATCHES_PER_SPIELTAG from config.py 16.     *)

MATCHES_PER_SPIELTAG == 9

\* sum(1 for m in matches if NUM_RE.match(m.get("result", ""))) (line 249).
RECURSIVE ResultsDone(_)
ResultsDone(ms) ==
    IF ms = <<>> THEN 0
    ELSE (IF NUM_RE_match(Head(ms).result) THEN 1 ELSE 0) + ResultsDone(Tail(ms))

\* all(p.get("kicktipp_P", 0) == 0 for p in players)
AllZero(ps) == \A i \in 1..Len(ps) : ps[i].kicktipp_P = 0

\* Lines 252-257.
NaiveStatus(results_done, total) ==
    IF results_done = 0 THEN "not_started"
    ELSE IF results_done < total THEN "in_progress"
    ELSE "complete"

\* The function with the test `results_done == 0` of line 260 lost.
derive_spieltag_status_NoResultsTest(ms, slots, ps) ==
    LET results_done == ResultsDone(ms)
        total == IF slots > 0 THEN slots
                 ELSE IF Len(ms) # 0 THEN Len(ms) ELSE MATCHES_PER_SPIELTAG
    IN IF ps # <<>> /\ AllZero(ps) THEN "not_started"
       ELSE NaiveStatus(results_done, total)

derive_spieltag_status(ms, slots, ps) ==
    LET results_done == ResultsDone(ms)
        total == IF slots > 0 THEN slots
                 ELSE IF Len(ms) # 0 THEN Len(ms) ELSE MATCHES_PER_SPIELTAG
    IN IF ps # <<>> /\ AllZero(ps) /\ results_done = 0 THEN "not_started"
       ELSE NaiveStatus(results_done, total)

\* The arguments: up to MaxMatches match records whose results are what
\* parse_matches stores for a few cells, a slot count of 0..MaxSlots, and the
\* scored lists of up to MaxStatusPlayers players with the scores 0 and 1.
MaxMatches == 3
MaxSlots == 4
MaxStatusPlayers == 2

StatusCells == {<<>>, <<"x">>, <<"1", ":", "1">>, <<"1", " ", ":", "1">>}
StatusResults == {NormalizeResult(c) : c \in StatusCells}

StatusMatchLists(n) ==
    {[k \in 1..Len(r) |-> [kicktipp_row |-> k, result |-> r[k]]] :
        r \in Lists(StatusResults, n)}

StatusPlayerLists(n) ==
    {apply_wurstliga_scoring(RawPlayers(l)) : l \in Lists(0..1, n)}

StInit ==
    /\ stPc = "call"
    /\ stMatches \in StatusMatchLists(MaxMatches)
    /\ stSlots \in 0..MaxSlots
    /\ stPlayers \in StatusPlayerLists(MaxStatusPlayers)
    /\ status = ""

DeriveStatus ==
    /\ stPc = "call"
    /\ stPc' = "returned"
    /\ status' = derive_spieltag_status(stMatches, stSlots, stPlayers)
    /\ UNCHANGED <<stMatches, stSlots, stPlayers>>
    /\ UNCHANGED <<getVars, pmVars, ppVars, scVars, aggVars>>

NextStatus == DeriveStatus

InitStatus == GetIdle /\ PmIdle /\ PpIdle /\ ScIdle /\ StInit /\ AggIdle

SpecStatus == InitStatus /\ [][NextStatus]_vars

\* The number of matches whose result has the form of a score.
Completed(ms) == Cardinality({k \in 1..Len(ms) : SpacedScore(ms[k].result)})

\* The table's row count if positive, else the match-list length if positive,
\* else the configured default.
Expected(ms, slots) ==
    IF slots > 0 THEN slots ELSE IF Len(ms) > 0 THEN Len(ms) ELSE MATCHES_PER_SPIELTAG

\* C3: the status is not_started when completed = 0, in_progress when
\* 0 < completed < expected, complete when completed >= expected; and for the
\* same matches and slot count it is the same for every player list.
C3_StatusRule ==
    stPc = "returned" =>
        LET completed == Completed(stMatches)
            expected  == Expected(stMatches, stSlots)
        IN /\ completed = 0 => status = "not_started"
           /\ 0 < completed /\ completed < expected => status = "in_progress"
           /\ completed >= expected => status = "complete"
           /\ \A ps \in StatusPlayerLists(MaxStatusPlayers) :
                derive_spieltag_status(stMatches, stSlots, ps) = status

\* A round whose players all have 0 points and whose matches all have a
\* result has been classified, with the slot count taken from the match list.
C3_Witness ==
    /\ stPc = "returned"
    /\ stPlayers # <<>> /\ AllZero(stPlayers)
    /\ stSlots = 0 /\ Len(stMatches) = 2
    /\ status = "complete"

--------------------------------------------------------------------------
(* compute_wurstliga.py: load_spieltage 13-17, main 20-59.                 *)
(* A round document is [spieltag, status, players], as parse_spieltag      *)
(* builds it (scrape_kicktipp.py 276-282); the matches are not read here.  *)
(* The standings are [spieltage_counted, players]; season and updated_at   *)
(* are left out.                                                           *)

\* The default of totals (line 21), with the name it is stored under.
ZeroTotals(name) ==
    [name |-> name, kicktipp_sum_P |-> 0, wurstliga_sum |-> 0,
     tv_sum |-> 0, null_sum |-> 0, sts_sum |-> 0]

\* Lines 35-39 with `=` written for `+=`.
AddedTo_Overwriting(t, p) ==
    [t EXCEPT !.kicktipp_sum_P = p.kicktipp_P,
              !.wurstliga_sum  = p.wurstliga_pts,
              !.tv_sum         = p.tv,
              !.null_sum       = p.null_wurst,
              !.sts_sum        = p.sts]

\* Lines 35-39: one player's fields added to the totals of the name.
AddedTo(t, p) ==
    [t EXCEPT !.kicktipp_sum_P = @ + p.kicktipp_P,
              !.wurstliga_sum  = @ + p.wurstliga_pts,
              !.tv_sum         = @ + p.tv,
              !.null_sum       = @ + p.null_wurst,
              !.sts_sum        = @ + p.sts]

\* t = totals[p["name"]] and the additions (lines 34-39). totals is a dict: it
\* keeps its keys in the order they were first used, here a sequence.
AddPlayer(totals, p) ==
    IF \E k \in 1..Len(totals) : totals[k].name = p.name
    THEN [k \in 1..Len(totals) |->
            IF totals[k].name = p.name THEN AddedTo(totals[k], p) ELSE totals[k]]
    ELSE Append(totals, AddedTo(ZeroTotals(p.name), p))

\* for p in doc.get("players", []) (line 33).
RECURSIVE AddPlayers(_, _)
AddPlayers(totals, ps) ==
    IF ps = <<>> THEN totals ELSE AddPlayers(AddPlayer(totals, Head(ps)), Tail(ps))

\* The skip test with only the status read.
Skipped_StatusOnly(doc) == doc.status = "not_started"

\* Lines 25-31: the two `continue`.
Skipped(doc) ==
    \/ doc.status = "not_started"
    \/ AllZero(doc.players) /\ Len(doc.players) > 0

\* for doc in load_spieltage() (lines 24-39): [totals, counted] after the
\* documents ds, begun from acc.
RECURSIVE Folded(_, _)
Folded(acc, ds) ==
    IF ds = <<>> THEN acc
    ELSE LET doc == Head(ds) IN
         IF Skipped(doc) THEN Folded(acc, Tail(ds))
         ELSE Folded([totals  |-> AddPlayers(acc.totals, doc.players),
                      counted |-> Append(acc.counted, doc.spieltag)],
                     Tail(ds))

\* sorted(counted) (line 43).
RECURSIVE SortedNumbers(_)
SortedNumbers(xs) ==
    IF xs = <<>> THEN <<>>
    ELSE LET rest == SortedNumbers(Tail(xs))
             k == Cardinality({j \in 1..Len(rest) : rest[j] <= Head(xs)})
         IN SubSeq(rest, 1, k) \o <<Head(xs)>> \o SubSeq(rest, k + 1, Len(rest))

\* The key with the raw score sum left out.
KeyLess_LeagueOnly(a, b) == a.wurstliga_sum < b.wurstliga_sum

\* The order of the keys (wurstliga_sum, kicktipp_sum_P) of line 49.
KeyLess(a, b) ==
    \/ a.wurstliga_sum < b.wurstliga_sum
    \/ a.wurstliga_sum = b.wurstliga_sum /\ a.kicktipp_sum_P < b.kicktipp_sum_P

\* sorted(totals.items(), key=..., reverse=True) (lines 47-51): the sort is
\* stable, and with reverse=True entries of equal keys keep their order too.
\* The entries are put in one by one, each behind those not smaller than it.
RECURSIVE SortedReverseByKey(_)
SortedReverseByKey(ts) ==
    IF ts = <<>> THEN <<>>
    ELSE LET init == SortedReverseByKey(SubSeq(ts, 1, Len(ts) - 1))
             t == ts[Len(ts)]
             k == Cardinality({j \in 1..Len(init) : ~KeyLess(init[j], t)})
         IN SubSeq(init, 1, k) \o <<t>> \o SubSeq(init, k + 1, Len(init))

\* The object `out` of lines 41-53.
StandingsOf(ds) ==
    LET acc == Folded([totals |-> <<>>, counted |-> <<>>], ds)
    IN [spieltage_counted |-> SortedNumbers(acc.counted),
        players |-> SortedReverseByKey(acc.totals)]

\* The documents on disk: the rounds 1..n, n <= MaxRounds, each with a status
\* and the scored list of some of the players AggNames, in any order, with
\* raw scores of AggScores.
MaxRounds == 2

AggNames == {"A", "B"}
AggScores == {0, 1, 2}
Statuses == {"not_started", "in_progress", "complete"}

RoundRawLists ==
    {l \in Lists([name : AggNames, kicktipp_P : AggScores], Cardinality(AggNames)) :
        \A i, j \in 1..Len(l) : l[i].name = l[j].name => i = j}

RoundContents ==
    {[status |-> st, players |-> apply_wurstliga_scoring(l)] :
        st \in Statuses, l \in RoundRawLists}

DocLists(n) ==
    {[k \in 1..Len(c) |-> [spieltag |-> k, status |-> c[k].status,
                           players |-> c[k].players]] :
        c \in Lists(RoundContents, n)}

AggInit ==
    /\ aggPc = "start"
    /\ dirExists \in BOOLEAN
    /\ docs \in DocLists(MaxRounds)
    /\ ~dirExists => docs = <<>>
    /\ standings = [spieltage_counted |-> <<>>, players |-> <<>>]

\* main(): os.listdir(SPIEL_DIR) (line 14) raises FileNotFoundError when the
\* directory is missing, before anything is written; otherwise the documents
\* are folded and standings.json is written.
Aggregate ==
    /\ aggPc = "start"
    /\ IF dirExists
         THEN aggPc' = "written" /\ standings' = StandingsOf(docs)
         ELSE aggPc' = "raised" /\ UNCHANGED standings
    /\ UNCHANGED <<dirExists, docs>>
    /\ UNCHANGED <<getVars, pmVars, ppVars, scVars, stVars>>

NextStandings == Aggregate

InitStandings == GetIdle /\ PmIdle /\ PpIdle /\ ScIdle /\ StIdle /\ AggInit

SpecStandings == InitStandings /\ [][NextStandings]_vars

\* The documents without the one at place i.
Without(ds, i) == SubSeq(ds, 1, i - 1) \o SubSeq(ds, i + 1, Len(ds))

\* A round the claims call excluded: not started, or at least one player and
\* every player's raw score 0.
Excluded(doc) ==
    \/ doc.status = "not_started"
    \/ /\ Len(doc.players) >= 1
       /\ \A j \in 1..Len(doc.players) : doc.players[j].kicktipp_P = 0

InSeq(x, xs) == \E k \in 1..Len(xs) : xs[k] = x

\* C4: an excluded round's number is not in spieltage_counted and the round
\* adds nothing to any total (the standings are those of the season without
\* it); every other round's number is in spieltage_counted.
C4_ExcludedRounds ==
    aggPc = "written" =>
        \A i \in 1..Len(docs) :
            IF Excluded(docs[i])
            THEN /\ ~InSeq(docs[i].spieltag, standings.spieltage_counted)
                 /\ standings = StandingsOf(Without(docs, i))
            ELSE InSeq(docs[i].spieltag, standings.spieltage_counted)

\* A season with a started round whose players all have 0 points, and a
\* counted round with players, has been aggregated.
C4_Witness ==
    /\ aggPc = "written"
    /\ \E i, j \in 1..Len(docs) :
        /\ docs[i].status # "not_started"
        /\ Len(docs[i].players) = 2 /\ AllZero(docs[i].players)
        /\ ~Excluded(docs[j]) /\ docs[j].players # <<>>
    /\ standings.players # <<>>

RECURSIVE SumOf(_)
SumOf(xs) == IF xs = <<>> THEN 0 ELSE Head(xs) + SumOf(Tail(xs))

\* What the player of a name has in a field in one round (0 when absent).
RoundValue(doc, name, field) ==
    SumOf([j \in 1..Len(doc.players) |->
            IF doc.players[j].name = name THEN doc.players[j][field] ELSE 0])

\* The sum of a field of a player over the rounds that are not excluded.
SeasonValue(name, field) ==
    SumOf([i \in 1..Len(docs) |->
            IF Excluded(docs[i]) THEN 0 ELSE RoundValue(docs[i], name, field)])

\* C5: the aggregation of a season with documents does not raise; the
\* standings hold one entry for every name that appears in a counted round,
\* and each of its five totals is the sum of the field over the counted
\* rounds the player appears in.
C5_TotalsAreSums ==
    /\ (aggPc = "raised" => docs = <<>>)
    /\ aggPc = "written" =>
        /\ \A n \in AggNames :
            (\E i \in 1..Len(docs) : ~Excluded(docs[i])
                /\ \E j \in 1..Len(docs[i].players) : docs[i].players[j].name = n)
            <=> (\E k \in 1..Len(standings.players) : standings.players[k].name = n)
        /\ \A k, l \in 1..Len(standings.players) :
            standings.players[k].name = standings.players[l].name => k = l
        /\ \A k \in 1..Len(standings.players) :
            LET t == standings.players[k] IN
            /\ t.wurstliga_sum  = SeasonValue(t.name, "wurstliga_pts")
            /\ t.kicktipp_sum_P = SeasonValue(t.name, "kicktipp_P")
            /\ t.sts_sum        = SeasonValue(t.name, "sts")
            /\ t.tv_sum         = SeasonValue(t.name, "tv")
            /\ t.null_sum       = SeasonValue(t.name, "null_wurst")

\* A season of two counted rounds has been aggregated in which one player
\* appears twice with points and the other only once.
C5_Witness ==
    /\ aggPc = "written"
    /\ Len(docs) = 2 /\ ~Excluded(docs[1]) /\ ~Excluded(docs[2])
    /\ Len(docs[1].players) = 2 /\ Len(docs[2].players) = 1
    /\ \E k \in 1..Len(standings.players) :
        /\ standings.players[k].name = docs[2].players[1].name
        /\ standings.players[k].wurstliga_sum = 18
        /\ standings.players[k].kicktipp_sum_P = 3

\* C6: of two adjacent entries of the standings the earlier has the greater
\* league points total, or the same and a raw score total at least as great.
C6_StandingsOrder ==
    aggPc = "written" =>
        \A k \in 1..Len(standings.players) - 1 :
            LET a == standings.players[k]
                b == standings.players[k + 1]
            IN \/ a.wurstliga_sum > b.wurstliga_sum
               \/ a.wurstliga_sum = b.wurstliga_sum
                    /\ a.kicktipp_sum_P >= b.kicktipp_sum_P

\* Standings in which the raw score total decides: two players with the same
\* league points, the one met second in the documents placed first.
C6_Witness ==
    /\ aggPc = "written"
    /\ Len(standings.players) = 2
    /\ standings.players[1].wurstliga_sum = standings.players[2].wurstliga_sum
    /\ standings.players[1].kicktipp_sum_P > standings.players[2].kicktipp_sum_P
    /\ ~Excluded(docs[1]) /\ Len(docs[1].players) = 2
    /\ docs[1].players[1].name = standings.players[2].name

\* C7: with no round documents the aggregation does not fail and writes
\* standings whose counted-round list and player list are empty.
C7_EmptySeason ==
    docs = <<>> /\ aggPc # "start" =>
        /\ aggPc = "written"
        /\ standings.spieltage_counted = <<>>
        /\ standings.players = <<>>

====
